---- MODULE Spec2Model ----
(***************************************************************************)
(* Binary tree traversals of                                               *)
(* src/data_structures/binary_tree/binary_tree_traversals.py.              *)
(*                                                                         *)
(* The object memory is a function from node identities to Node records;   *)
(* a reference is a node identity or None.  Every traversal is modelled    *)
(* twice from the same source lines: as the list a caller gets from        *)
(* list(f(root)) (a recursive operator), and as the lazy generator the     *)
(* function returns (a stack of suspended frames advanced by next()).      *)
(***************************************************************************)
EXTENDS Integers, Sequences, FiniteSets, TLC

VARIABLES
    heap,    \* the Node objects: identity -> [data, left, right]
    tree,    \* the root reference the callers hold
    call,    \* the function a caller called for its whole result
    result,  \* what that call returned
    gens,    \* the generator objects the callers hold
    log      \* history of level_order's queue: nodes enqueued, nodes dequeued

vars == <<heap, tree, call, result, gens, log>>

\* ------------------------------------------------------------------ bounds

\* Largest number of nodes of the trees with pairwise distinct data.
MaxNodes == 5

\* Largest number of nodes of the trees whose data is drawn from 1..MaxVal,
\* so that values repeat.
DupNodes == 4

MaxVal == 2

\* Largest number of nodes of the trees the lazy generators are stepped over.
GenNodes == 3

\* ------------------------------------------------------------- Node, trees

\* The absent reference.
None == 0

\* dataclass Node: data, left, right.
Node(data, left, right) == [data |-> data, left |-> left, right |-> right]

\* Identities are positions: the left child of node i is 2i, the right 2i+1.
FreeChildren(S) == {c \in {2 * i : i \in S} \cup {2 * i + 1 : i \in S} : c \notin S}

RECURSIVE ShapesUpTo(_)
ShapesUpTo(n) ==
    IF n = 0 THEN {{}}
    ELSE LET P == ShapesUpTo(n - 1)
         IN  P \cup {{1}} \cup UNION {{S \cup {c} : c \in FreeChildren(S)} : S \in P}

\* The object memory of the tree of shape S with data d.
HeapOf(S, d) ==
    [i \in S |-> Node(d[i],
                      IF 2 * i \in S THEN 2 * i ELSE None,
                      IF 2 * i + 1 \in S THEN 2 * i + 1 ELSE None)]

\* mem is a finite binary tree of at most n nodes with pairwise distinct data
\* (every node carries its own identity).
IsLabelledTreeUpTo(mem, n) ==
    \E S \in ShapesUpTo(n) : mem = HeapOf(S, [i \in S |-> i])

\* mem is a finite binary tree of at most n nodes with data in 1..MaxVal.
IsTreeUpTo(mem, n) ==
    \E S \in ShapesUpTo(n) : \E d \in [S -> 1..MaxVal] : mem = HeapOf(S, d)

\* The reference to the root of a memory (None for the empty tree).
RootOf(mem) == IF 1 \in DOMAIN mem THEN 1 ELSE None

\* make_tree(): 1 / (2 / (4, 5), 3).
make_tree ==
    (1 :> Node(1, 2, 3)) @@ (2 :> Node(2, 4, 5)) @@ (3 :> Node(3, None, None))
    @@ (4 :> Node(4, None, None)) @@ (5 :> Node(5, None, None))

\* ------------------------------------------- the functions, as list(f(root))

RECURSIVE preorder(_, _)
preorder(mem, root) ==
    IF root = None THEN <<>>
    ELSE <<mem[root].data>> \o preorder(mem, mem[root].left)
                            \o preorder(mem, mem[root].right)

\* postorder descending into the right subtree before the left one.
RECURSIVE postorder_right_first(_, _)
postorder_right_first(mem, root) ==
    IF root = None THEN <<>>
    ELSE postorder_right_first(mem, mem[root].right)
         \o postorder_right_first(mem, mem[root].left) \o <<mem[root].data>>

RECURSIVE postorder(_, _)
postorder(mem, root) ==
    IF root = None THEN <<>>
    ELSE postorder(mem, mem[root].left) \o postorder(mem, mem[root].right)
                                        \o <<mem[root].data>>

RECURSIVE inorder(_, _)
inorder(mem, root) ==
    IF root = None THEN <<>>
    ELSE inorder(mem, mem[root].left) \o <<mem[root].data>>
                                      \o inorder(mem, mem[root].right)

\* reverse_inorder left as a copy of inorder: left subtree first.
RECURSIVE reverse_inorder_left_first(_, _)
reverse_inorder_left_first(mem, root) ==
    IF root = None THEN <<>>
    ELSE reverse_inorder_left_first(mem, mem[root].left) \o <<mem[root].data>>
         \o reverse_inorder_left_first(mem, mem[root].right)

RECURSIVE reverse_inorder(_, _)
reverse_inorder(mem, root) ==
    IF root = None THEN <<>>
    ELSE reverse_inorder(mem, mem[root].right) \o <<mem[root].data>>
                                               \o reverse_inorder(mem, mem[root].left)

max(a, b) == IF a >= b THEN a ELSE b

min(a, b) == IF a <= b THEN a ELSE b

\* height taking the shorter of the two subtrees.
RECURSIVE height_min(_, _)
height_min(mem, root) ==
    IF root # None
    THEN min(height_min(mem, mem[root].left), height_min(mem, mem[root].right)) + 1
    ELSE 0

RECURSIVE height(_, _)
height(mem, root) ==
    IF root # None
    THEN max(height(mem, mem[root].left), height(mem, mem[root].right)) + 1
    ELSE 0

\* The right child tested with elif: dropped whenever there is a left child.
append_children_elif(mem, process_queue, node) ==
    IF mem[node].left # None THEN Append(process_queue, mem[node].left)
    ELSE IF mem[node].right # None THEN Append(process_queue, mem[node].right)
    ELSE process_queue

\* deque.append of the present children of node, left before right.
append_children(mem, process_queue, node) ==
    LET q1 == IF mem[node].left # None
              THEN Append(process_queue, mem[node].left) ELSE process_queue
    IN  IF mem[node].right # None THEN Append(q1, mem[node].right) ELSE q1

\* The loop taking the node with pop() (the back of the deque), not popleft().
RECURSIVE level_order_loop_pop(_, _, _)
level_order_loop_pop(mem, process_queue, out) ==
    IF process_queue = <<>> THEN out
    ELSE LET node == process_queue[Len(process_queue)]
             rest == SubSeq(process_queue, 1, Len(process_queue) - 1)
         IN  level_order_loop_pop(mem, append_children(mem, rest, node),
                                  Append(out, mem[node].data))

\* The while loop of level_order; out is what was yielded so far.
RECURSIVE level_order_loop(_, _, _)
level_order_loop(mem, process_queue, out) ==
    IF process_queue = <<>> THEN out
    ELSE LET node == Head(process_queue)
         IN  level_order_loop(mem,
                              append_children(mem, Tail(process_queue), node),
                              Append(out, mem[node].data))

level_order(mem, root) ==
    IF root = None THEN <<>> ELSE level_order_loop(mem, <<root>>, <<>>)

\* populate_output yielding at level <= 1, not only at level == 1.
RECURSIVE populate_output_ltr_le(_, _, _)
populate_output_ltr_le(mem, root, level) ==
    IF root = None THEN <<>>
    ELSE IF level <= 1 THEN <<mem[root].data>>
    ELSE populate_output_ltr_le(mem, mem[root].left, level - 1)
         \o populate_output_ltr_le(mem, mem[root].right, level - 1)

\* populate_output of get_nodes_from_left_to_right.
RECURSIVE populate_output_ltr(_, _, _)
populate_output_ltr(mem, root, level) ==
    IF root = None THEN <<>>
    ELSE IF level = 1 THEN <<mem[root].data>>
    ELSE IF level > 1
         THEN populate_output_ltr(mem, mem[root].left, level - 1)
              \o populate_output_ltr(mem, mem[root].right, level - 1)
    ELSE <<>>

get_nodes_from_left_to_right(mem, root, level) == populate_output_ltr(mem, root, level)

\* The right-to-left populate_output left as a copy of the left-to-right one.
RECURSIVE populate_output_rtl_left_first(_, _, _)
populate_output_rtl_left_first(mem, root, level) ==
    IF root = None THEN <<>>
    ELSE IF level = 1 THEN <<mem[root].data>>
    ELSE IF level > 1
         THEN populate_output_rtl_left_first(mem, mem[root].left, level - 1)
              \o populate_output_rtl_left_first(mem, mem[root].right, level - 1)
    ELSE <<>>

\* populate_output of get_nodes_from_right_to_left.
RECURSIVE populate_output_rtl(_, _, _)
populate_output_rtl(mem, root, level) ==
    IF root = None THEN <<>>
    ELSE IF level = 1 THEN <<mem[root].data>>
    ELSE IF level > 1
         THEN populate_output_rtl(mem, mem[root].right, level - 1)
              \o populate_output_rtl(mem, mem[root].left, level - 1)
    ELSE <<>>

get_nodes_from_right_to_left(mem, root, level) == populate_output_rtl(mem, root, level)

\* The for loop of zigzag never setting flag: every level left to right.
RECURSIVE zigzag_loop_no_toggle(_, _, _, _, _, _)
zigzag_loop_no_toggle(mem, root, h, height_tree, flag, out) ==
    IF h > height_tree THEN out
    ELSE zigzag_loop_no_toggle(mem, root, h + 1, height_tree, flag,
                               out \o get_nodes_from_left_to_right(mem, root, h))

\* The for loop of zigzag: h runs over range(1, height_tree + 1).
RECURSIVE zigzag_loop(_, _, _, _, _, _)
zigzag_loop(mem, root, h, height_tree, flag, out) ==
    IF h > height_tree THEN out
    ELSE IF flag = 0
         THEN zigzag_loop(mem, root, h + 1, height_tree, 1,
                          out \o get_nodes_from_left_to_right(mem, root, h))
         ELSE zigzag_loop(mem, root, h + 1, height_tree, 0,
                          out \o get_nodes_from_right_to_left(mem, root, h))

zigzag(mem, root) ==
    IF root = None THEN <<>>
    ELSE zigzag_loop(mem, root, 1, height(mem, root), 0, <<>>)

\* --------------------------------------- the functions, as lazy generators

\* A frame of a generator function: its arguments, its locals, and pc, the
\* source line it continues at ("end": falls off the end of the body).
NewFrame(fn, entry, root, level) ==
    [fn |-> fn, pc |-> entry, root |-> root, level |-> level,
     flag |-> 0, h |-> 0, height_tree |-> 0, process_queue |-> <<>>, node |-> None]

\* What running a frame up to its next transfer of control does.
Goto(f, pc) == [op |-> "step", frame |-> [f EXCEPT !.pc = pc], value |-> 0, callee |-> f]

Yield(f, pc, value) ==
    [op |-> "yield", frame |-> [f EXCEPT !.pc = pc], value |-> value, callee |-> f]

YieldFrom(f, pc, callee) ==
    [op |-> "call", frame |-> [f EXCEPT !.pc = pc], value |-> 0, callee |-> callee]

Return(f) == [op |-> "return", frame |-> f, value |-> 0, callee |-> f]

\* The preorder generator returning after the left subtree.
preorder_frame_no_right(mem, f) ==
    CASE f.pc = "L37" -> IF f.root = None THEN Return(f) ELSE Goto(f, "L39")
      [] f.pc = "L39" -> Yield(f, "L40", mem[f.root].data)
      [] f.pc = "L40" ->
            YieldFrom(f, "end", NewFrame("preorder", "L37", mem[f.root].left, 0))
      [] f.pc = "end" -> Return(f)

preorder_frame(mem, f) ==
    CASE f.pc = "L37" -> IF f.root = None THEN Return(f) ELSE Goto(f, "L39")
      [] f.pc = "L39" -> Yield(f, "L40", mem[f.root].data)
      [] f.pc = "L40" ->
            YieldFrom(f, "L41", NewFrame("preorder", "L37", mem[f.root].left, 0))
      [] f.pc = "L41" ->
            YieldFrom(f, "end", NewFrame("preorder", "L37", mem[f.root].right, 0))
      [] f.pc = "end" -> Return(f)

postorder_frame(mem, f) ==
    CASE f.pc = "L48" -> IF f.root = None THEN Return(f) ELSE Goto(f, "L50")
      [] f.pc = "L50" ->
            YieldFrom(f, "L51", NewFrame("postorder", "L48", mem[f.root].left, 0))
      [] f.pc = "L51" ->
            YieldFrom(f, "L52", NewFrame("postorder", "L48", mem[f.root].right, 0))
      [] f.pc = "L52" -> Yield(f, "end", mem[f.root].data)
      [] f.pc = "end" -> Return(f)

inorder_frame(mem, f) ==
    CASE f.pc = "L59" -> IF f.root = None THEN Return(f) ELSE Goto(f, "L61")
      [] f.pc = "L61" ->
            YieldFrom(f, "L62", NewFrame("inorder", "L59", mem[f.root].left, 0))
      [] f.pc = "L62" -> Yield(f, "L63", mem[f.root].data)
      [] f.pc = "L63" ->
            YieldFrom(f, "end", NewFrame("inorder", "L59", mem[f.root].right, 0))
      [] f.pc = "end" -> Return(f)

reverse_inorder_frame(mem, f) ==
    CASE f.pc = "L70" -> IF f.root = None THEN Return(f) ELSE Goto(f, "L72")
      [] f.pc = "L72" ->
            YieldFrom(f, "L73", NewFrame("reverse_inorder", "L70", mem[f.root].right, 0))
      [] f.pc = "L73" -> Yield(f, "L74", mem[f.root].data)
      [] f.pc = "L74" ->
            YieldFrom(f, "end", NewFrame("reverse_inorder", "L70", mem[f.root].left, 0))
      [] f.pc = "end" -> Return(f)

\* The level_order generator putting children at the front (appendleft).
level_order_frame_appendleft(mem, f) ==
    CASE f.pc = "L89" -> IF f.root = None THEN Return(f) ELSE Goto(f, "L92")
      [] f.pc = "L92" -> Goto([f EXCEPT !.process_queue = <<f.root>>], "L94")
      [] f.pc = "L94" -> IF f.process_queue # <<>> THEN Goto(f, "L95") ELSE Goto(f, "end")
      [] f.pc = "L95" ->
            Goto([f EXCEPT !.node = Head(f.process_queue),
                           !.process_queue = Tail(f.process_queue)], "L96")
      [] f.pc = "L96" -> Yield(f, "L97", mem[f.node].data)
      [] f.pc = "L97" ->
            IF mem[f.node].left # None
            THEN Goto([f EXCEPT !.process_queue = <<mem[f.node].left>> \o @], "L99")
            ELSE Goto(f, "L99")
      [] f.pc = "L99" ->
            IF mem[f.node].right # None
            THEN Goto([f EXCEPT !.process_queue = <<mem[f.node].right>> \o @], "L94")
            ELSE Goto(f, "L94")
      [] f.pc = "end" -> Return(f)

level_order_frame(mem, f) ==
    CASE f.pc = "L89" -> IF f.root = None THEN Return(f) ELSE Goto(f, "L92")
      [] f.pc = "L92" -> Goto([f EXCEPT !.process_queue = <<f.root>>], "L94")
      [] f.pc = "L94" -> IF f.process_queue # <<>> THEN Goto(f, "L95") ELSE Goto(f, "end")
      [] f.pc = "L95" ->
            Goto([f EXCEPT !.node = Head(f.process_queue),
                           !.process_queue = Tail(f.process_queue)], "L96")
      [] f.pc = "L96" -> Yield(f, "L97", mem[f.node].data)
      [] f.pc = "L97" ->
            IF mem[f.node].left # None
            THEN Goto([f EXCEPT !.process_queue = Append(@, mem[f.node].left)], "L99")
            ELSE Goto(f, "L99")
      [] f.pc = "L99" ->
            IF mem[f.node].right # None
            THEN Goto([f EXCEPT !.process_queue = Append(@, mem[f.node].right)], "L94")
            ELSE Goto(f, "L94")
      [] f.pc = "end" -> Return(f)

populate_output_ltr_frame(mem, f) ==
    CASE f.pc = "L108" -> IF f.root = None THEN Return(f) ELSE Goto(f, "L110")
      [] f.pc = "L110" -> IF f.level = 1 THEN Goto(f, "L111") ELSE Goto(f, "L112")
      [] f.pc = "L111" -> Yield(f, "end", mem[f.root].data)
      [] f.pc = "L112" -> IF f.level > 1 THEN Goto(f, "L113") ELSE Goto(f, "end")
      [] f.pc = "L113" ->
            YieldFrom(f, "L114",
                      NewFrame("populate_output_ltr", "L108", mem[f.root].left, f.level - 1))
      [] f.pc = "L114" ->
            YieldFrom(f, "end",
                      NewFrame("populate_output_ltr", "L108", mem[f.root].right, f.level - 1))
      [] f.pc = "end" -> Return(f)

get_nodes_from_left_to_right_frame(mem, f) ==
    CASE f.pc = "L116" ->
            YieldFrom(f, "end", NewFrame("populate_output_ltr", "L108", f.root, f.level))
      [] f.pc = "end" -> Return(f)

populate_output_rtl_frame(mem, f) ==
    CASE f.pc = "L124" -> IF f.root = None THEN Return(f) ELSE Goto(f, "L126")
      [] f.pc = "L126" -> IF f.level = 1 THEN Goto(f, "L127") ELSE Goto(f, "L128")
      [] f.pc = "L127" -> Yield(f, "end", mem[f.root].data)
      [] f.pc = "L128" -> IF f.level > 1 THEN Goto(f, "L129") ELSE Goto(f, "end")
      [] f.pc = "L129" ->
            YieldFrom(f, "L130",
                      NewFrame("populate_output_rtl", "L124", mem[f.root].right, f.level - 1))
      [] f.pc = "L130" ->
            YieldFrom(f, "end",
                      NewFrame("populate_output_rtl", "L124", mem[f.root].left, f.level - 1))
      [] f.pc = "end" -> Return(f)

get_nodes_from_right_to_left_frame(mem, f) ==
    CASE f.pc = "L132" ->
            YieldFrom(f, "end", NewFrame("populate_output_rtl", "L124", f.root, f.level))
      [] f.pc = "end" -> Return(f)

\* h = 0 stands for the range iterator before its first element.
zigzag_frame(mem, f) ==
    CASE f.pc = "L139" -> IF f.root = None THEN Return(f) ELSE Goto(f, "L142")
      [] f.pc = "L142" -> Goto([f EXCEPT !.flag = 0], "L143")
      [] f.pc = "L143" -> Goto([f EXCEPT !.height_tree = height(mem, f.root)], "L145")
      [] f.pc = "L145" ->
            IF f.h + 1 < f.height_tree + 1
            THEN Goto([f EXCEPT !.h = f.h + 1], "L146")
            ELSE Goto(f, "end")
      [] f.pc = "L146" -> IF f.flag = 0 THEN Goto(f, "L147") ELSE Goto(f, "L150")
      [] f.pc = "L147" ->
            YieldFrom(f, "L148",
                      NewFrame("get_nodes_from_left_to_right", "L116", f.root, f.h))
      [] f.pc = "L148" -> Goto([f EXCEPT !.flag = 1], "L145")
      [] f.pc = "L150" ->
            YieldFrom(f, "L151",
                      NewFrame("get_nodes_from_right_to_left", "L132", f.root, f.h))
      [] f.pc = "L151" -> Goto([f EXCEPT !.flag = 0], "L145")
      [] f.pc = "end" -> Return(f)

\* One transfer of control of frame f, by the function it belongs to.
Exec(mem, f) ==
    CASE f.fn = "preorder" -> preorder_frame(mem, f)
      [] f.fn = "postorder" -> postorder_frame(mem, f)
      [] f.fn = "inorder" -> inorder_frame(mem, f)
      [] f.fn = "reverse_inorder" -> reverse_inorder_frame(mem, f)
      [] f.fn = "level_order" -> level_order_frame(mem, f)
      [] f.fn = "populate_output_ltr" -> populate_output_ltr_frame(mem, f)
      [] f.fn = "get_nodes_from_left_to_right" -> get_nodes_from_left_to_right_frame(mem, f)
      [] f.fn = "populate_output_rtl" -> populate_output_rtl_frame(mem, f)
      [] f.fn = "get_nodes_from_right_to_left" -> get_nodes_from_right_to_left_frame(mem, f)
      [] f.fn = "zigzag" -> zigzag_frame(mem, f)

\* The stack after the innermost frame made one transfer of control: a frame
\* that yields or steps stays, yield from pushes the callee, return pops.
Transfer(stack, o) ==
    LET rest == SubSeq(stack, 1, Len(stack) - 1)
    IN  CASE o.op = "yield" -> rest \o <<o.frame>>
          [] o.op = "step" -> rest \o <<o.frame>>
          [] o.op = "call" -> rest \o <<o.frame, o.callee>>
          [] o.op = "return" -> rest

\* next(generator): run the innermost frame on until a value is yielded to
\* the consumer (value = <<v>>) or the outermost frame returns (value = <<>>).
RECURSIVE Resume(_, _)
Resume(mem, stack) ==
    IF stack = <<>> THEN [stack |-> <<>>, value |-> <<>>]
    ELSE LET o == Exec(mem, stack[Len(stack)])
         IN  IF o.op = "yield"
             THEN [stack |-> Transfer(stack, o), value |-> <<o.value>>]
             ELSE Resume(mem, Transfer(stack, o))

\* The callers' generator objects.
Gens == {1, 2}

Free == [fn |-> "none", level |-> 0, stack |-> <<>>, out |-> <<>>, done |-> FALSE]

\* Calling a generator function only creates the generator: no line runs yet.
Generator(fn, entry, root, level) ==
    [fn |-> fn, level |-> level, stack |-> <<NewFrame(fn, entry, root, level)>>,
     out |-> <<>>, done |-> FALSE]

\* ------------------------------------------------- calls of the functions

\* The levels a caller passes: below 1, in range, and above any height.
Levels(n) == (0 - 1)..(n + 1)

NoCall == [fn |-> "none", level |-> 0]

NoLog == [enqueued |-> <<>>, dequeued |-> <<>>]

InitFn ==
    /\ \/ IsTreeUpTo(heap, DupNodes)
       \/ IsLabelledTreeUpTo(heap, MaxNodes)
       \/ heap = make_tree
    /\ tree = RootOf(heap)
    /\ call = NoCall
    /\ result = <<>>
    /\ gens = [g \in Gens |-> Free]
    /\ log = NoLog

\* A caller holding the root calls one function and keeps what it returns.
Returns(fn, level, value) ==
    /\ call = NoCall
    /\ call' = [fn |-> fn, level |-> level]
    /\ result' = value
    /\ UNCHANGED <<heap, tree, gens, log>>

Call_preorder == Returns("preorder", 0, preorder(heap, tree))

Call_postorder == Returns("postorder", 0, postorder(heap, tree))

Call_inorder == Returns("inorder", 0, inorder(heap, tree))

Call_reverse_inorder == Returns("reverse_inorder", 0, reverse_inorder(heap, tree))

Call_height == Returns("height", 0, height(heap, tree))

Call_level_order == Returns("level_order", 0, level_order(heap, tree))

Call_get_nodes_from_left_to_right ==
    \E level \in Levels(MaxNodes) :
        Returns("get_nodes_from_left_to_right", level,
                get_nodes_from_left_to_right(heap, tree, level))

Call_get_nodes_from_right_to_left ==
    \E level \in Levels(MaxNodes) :
        Returns("get_nodes_from_right_to_left", level,
                get_nodes_from_right_to_left(heap, tree, level))

Call_zigzag == Returns("zigzag", 0, zigzag(heap, tree))

NextFn ==
    \/ Call_preorder
    \/ Call_postorder
    \/ Call_inorder
    \/ Call_reverse_inorder
    \/ Call_height
    \/ Call_level_order
    \/ Call_get_nodes_from_left_to_right
    \/ Call_get_nodes_from_right_to_left
    \/ Call_zigzag

SpecFn == InitFn /\ [][NextFn]_vars

\* --------------------------------------------- callers of lazy generators

Init ==
    /\ IsLabelledTreeUpTo(heap, GenNodes) \/ heap = make_tree
    /\ tree = RootOf(heap)
    /\ call = NoCall
    /\ result = <<>>
    /\ gens = [g \in Gens |-> Free]
    /\ log = NoLog

\* A caller calls a generator function on the root and keeps the generator.
Create(g, fn, entry, level) ==
    /\ gens[g] = Free
    /\ gens' = [gens EXCEPT ![g] = Generator(fn, entry, tree, level)]
    /\ UNCHANGED <<heap, tree, call, result, log>>

New_preorder(g) == Create(g, "preorder", "L37", 0)

New_postorder(g) == Create(g, "postorder", "L48", 0)

New_inorder(g) == Create(g, "inorder", "L59", 0)

New_reverse_inorder(g) == Create(g, "reverse_inorder", "L70", 0)

New_level_order(g) == Create(g, "level_order", "L89", 0)

New_get_nodes_from_left_to_right(g) ==
    \E level \in Levels(GenNodes) : Create(g, "get_nodes_from_left_to_right", "L116", level)

New_get_nodes_from_right_to_left(g) ==
    \E level \in Levels(GenNodes) : Create(g, "get_nodes_from_right_to_left", "L132", level)

New_zigzag(g) == Create(g, "zigzag", "L139", 0)

\* next(generator) on a generator that is not exhausted: it runs up to its
\* next yield, or to its end (StopIteration).
Pull(g) ==
    /\ gens[g] # Free
    /\ ~gens[g].done
    /\ LET r == Resume(heap, gens[g].stack)
       IN  gens' = [gens EXCEPT ![g] = [@ EXCEPT !.stack = r.stack,
                                                 !.out = @ \o r.value,
                                                 !.done = (r.value = <<>>)]]
    /\ UNCHANGED <<heap, tree, call, result, log>>

\* The consumer stops pulling and drops the generator, exhausted or not.
Abandon(g) ==
    /\ gens[g] # Free
    /\ gens' = [gens EXCEPT ![g] = Free]
    /\ UNCHANGED <<heap, tree, call, result, log>>

Next ==
    \/ \E g \in Gens :
        \/ New_preorder(g)
        \/ New_postorder(g)
        \/ New_inorder(g)
        \/ New_reverse_inorder(g)
        \/ New_level_order(g)
        \/ New_get_nodes_from_left_to_right(g)
        \/ New_get_nodes_from_right_to_left(g)
        \/ New_zigzag(g)
        \/ Pull(g)
        \/ Abandon(g)
    \/ Call_height

Spec == Init /\ [][Next]_vars

\* ------------------------------------ level_order, one source line a step

InitLO ==
    /\ \/ IsTreeUpTo(heap, DupNodes)
       \/ IsLabelledTreeUpTo(heap, MaxNodes)
       \/ heap = make_tree
    /\ tree = RootOf(heap)
    /\ call = NoCall
    /\ result = <<>>
    /\ gens = [g \in Gens |-> IF g = 1 THEN Generator("level_order", "L89", tree, 0)
                                       ELSE Free]
    /\ log = NoLog

\* The line at pc of the level_order generator runs.
Line(pc) ==
    LET gen == gens[1]
    IN  /\ gen.fn = "level_order"
        /\ gen.stack # <<>>
        /\ gen.stack[1].pc = pc
        /\ LET f == gen.stack[1]
               o == Exec(heap, f)
               q == o.frame.process_queue
           IN  /\ gens' = [gens EXCEPT ![1] =
                             [gen EXCEPT !.stack = Transfer(gen.stack, o),
                                         !.out = IF o.op = "yield"
                                                 THEN Append(@, o.value) ELSE @,
                                         !.done = (o.op = "return")]]
               /\ log' = [enqueued |-> IF Len(q) > Len(f.process_queue)
                                       THEN Append(log.enqueued, q[Len(q)])
                                       ELSE log.enqueued,
                          dequeued |-> IF Len(q) < Len(f.process_queue)
                                       THEN Append(log.dequeued, o.frame.node)
                                       ELSE log.dequeued]
        /\ UNCHANGED <<heap, tree, call, result>>

LO_L89 == Line("L89")

LO_L92 == Line("L92")

LO_L94 == Line("L94")

LO_L95 == Line("L95")

LO_L96 == Line("L96")

LO_L97 == Line("L97")

LO_L99 == Line("L99")

LO_end == Line("end")

NextLO ==
    \/ LO_L89
    \/ LO_L92
    \/ LO_L94
    \/ LO_L95
    \/ LO_L96
    \/ LO_L97
    \/ LO_L99
    \/ LO_end

SpecLO == InitLO /\ [][NextLO]_vars

\* ------------------------------------------------------------- properties

Nodes == DOMAIN heap

Reverse(s) == [i \in 1..Len(s) |-> s[Len(s) + 1 - i]]

Range(s) == {s[i] : i \in 1..Len(s)}

NoDuplicates(s) == \A i, j \in 1..Len(s) : s[i] = s[j] => i = j

\* How often v occurs in s.
Count(s, v) == Cardinality({i \in 1..Len(s) : s[i] = v})

\* The nodes of the subtree under a reference.
RECURSIVE Subtree(_, _)
Subtree(mem, root) ==
    IF root = None THEN {}
    ELSE {root} \cup Subtree(mem, mem[root].left) \cup Subtree(mem, mem[root].right)

\* The 1-based depth of node n under root (0: n is not under root).
RECURSIVE DepthOf(_, _, _)
DepthOf(mem, root, n) ==
    IF root = None THEN 0
    ELSE IF root = n THEN 1
    ELSE LET l == DepthOf(mem, mem[root].left, n)
             r == DepthOf(mem, mem[root].right, n)
         IN  IF l > 0 THEN l + 1 ELSE IF r > 0 THEN r + 1 ELSE 0

Depth(n) == DepthOf(heap, tree, n)

\* a lies to the left of b: in the left subtree of a node whose right subtree
\* holds b.
LeftOf(a, b) ==
    \E x \in Nodes : /\ a \in Subtree(heap, heap[x].left)
                     /\ b \in Subtree(heap, heap[x].right)

\* The nodes of S, all of one depth, from left to right.
RECURSIVE LeftToRight(_)
LeftToRight(S) ==
    IF S = {} THEN <<>>
    ELSE LET m == CHOOSE n \in S : \A k \in S \ {n} : LeftOf(n, k)
         IN  <<m>> \o LeftToRight(S \ {m})

DataOf(ns) == [i \in 1..Len(ns) |-> heap[ns[i]].data]

\* No two nodes carry the same data: a value in a result names its node.
DistinctData == \A a, b \in Nodes : heap[a].data = heap[b].data => a = b

\* The place of node n in the result of a traversal of a DistinctData tree.
Pos(n) == CHOOSE i \in 1..Len(result) : result[i] = heap[n].data

Precedes(a, b) == Pos(a) < Pos(b)

GreatestDepth == IF Nodes = {} THEN 0
                 ELSE CHOOSE d \in {Depth(n) : n \in Nodes} :
                        \A n \in Nodes : Depth(n) <= d

\* C1: preorder, inorder, reverse_inorder, postorder and level_order each
\* return exactly as many values as the tree has nodes, and every value as
\* often as nodes carry it: every node once, none omitted, none duplicated.
C1_EveryNodeOnce ==
    call.fn \in {"preorder", "inorder", "reverse_inorder", "postorder", "level_order"}
    => /\ Len(result) = Cardinality(Nodes)
       /\ \A v \in {heap[n].data : n \in Nodes} \cup Range(result) :
            Count(result, v) = Cardinality({n \in Nodes : heap[n].data = v})

C1_Witness ==
    /\ call.fn = "level_order"
    /\ Cardinality(Nodes) >= 4
    /\ heap[tree].left # None /\ heap[tree].right # None
    /\ ~DistinctData
    /\ Len(result) = Cardinality(Nodes)

\* C2: for every node x with left subtree A and right subtree B: preorder
\* emits x before all of A and all of A before all of B; inorder all of A
\* before x and x before all of B; reverse_inorder all of B before x and x
\* before all of A; postorder all of A before all of B and all of B before x.
\* An absent root gives the empty sequence.
C2_VisitOrder ==
    call.fn \in {"preorder", "inorder", "reverse_inorder", "postorder"}
    => /\ tree = None => result = <<>>
       /\ DistinctData =>
            /\ \A n \in Nodes : heap[n].data \in Range(result)
            /\ \A x \in Nodes :
                LET A == Subtree(heap, heap[x].left)
                    B == Subtree(heap, heap[x].right)
                IN  CASE call.fn = "preorder" ->
                            /\ \A a \in A : Precedes(x, a)
                            /\ \A a \in A, b \in B : Precedes(a, b)
                      [] call.fn = "inorder" ->
                            /\ \A a \in A : Precedes(a, x)
                            /\ \A b \in B : Precedes(x, b)
                      [] call.fn = "reverse_inorder" ->
                            /\ \A b \in B : Precedes(b, x)
                            /\ \A a \in A : Precedes(x, a)
                      [] call.fn = "postorder" ->
                            /\ \A a \in A, b \in B : Precedes(a, b)
                            /\ \A b \in B : Precedes(b, x)

C2_Witness ==
    /\ call.fn = "postorder"
    /\ DistinctData
    /\ \E x \in Nodes : /\ Cardinality(Subtree(heap, heap[x].left)) >= 2
                        /\ heap[x].right # None
                        /\ Precedes(heap[x].right, x)

\* The levels d..height of the tree, each from left to right, one after another.
RECURSIVE LevelsFrom(_)
LevelsFrom(d) ==
    IF d > height(heap, tree) THEN <<>>
    ELSE get_nodes_from_left_to_right(heap, tree, d) \o LevelsFrom(d + 1)

\* C3: level_order emits the nodes in non-decreasing depth and, within a
\* depth, from left to right; it equals get_nodes_from_left_to_right of the
\* depths 1..height one after another.
C3_LevelOrder ==
    call.fn = "level_order"
    => /\ result = LevelsFrom(1)
       /\ DistinctData =>
            /\ \A n \in Nodes : heap[n].data \in Range(result)
            /\ \A a, b \in Nodes :
                    Precedes(a, b) =>
                        \/ Depth(a) < Depth(b)
                        \/ Depth(a) = Depth(b) /\ LeftOf(a, b)

C3_Witness ==
    /\ call.fn = "level_order"
    /\ DistinctData
    /\ \E a, b, c \in Nodes :
            /\ Depth(a) = 3 /\ Depth(b) = 2 /\ Depth(c) = 3
            /\ LeftOf(a, b) /\ LeftOf(a, c)
            /\ Precedes(b, a) /\ Precedes(a, c)

\* The levels d..height, odd depths left to right and even ones right to left.
RECURSIVE ZigzagFrom(_)
ZigzagFrom(d) ==
    IF d > height(heap, tree) THEN <<>>
    ELSE (IF d % 2 = 1 THEN get_nodes_from_left_to_right(heap, tree, d)
                       ELSE get_nodes_from_right_to_left(heap, tree, d))
         \o ZigzagFrom(d + 1)

\* C4: zigzag is, for the depths 1..height, get_nodes_from_left_to_right of
\* the odd depths and get_nodes_from_right_to_left of the even ones, one after
\* another; it is empty for an absent root, and 1 3 2 4 5 for make_tree.
C4_Zigzag ==
    call.fn = "zigzag"
    => /\ result = ZigzagFrom(1)
       /\ tree = None => result = <<>>
       /\ heap = make_tree => result = <<1, 3, 2, 4, 5>>

C4_Witness ==
    /\ call.fn = "zigzag"
    /\ height(heap, tree) = 3
    /\ get_nodes_from_left_to_right(heap, tree, 2)
            # get_nodes_from_right_to_left(heap, tree, 2)
    /\ Len(get_nodes_from_left_to_right(heap, tree, 3)) >= 2
    /\ result = ZigzagFrom(1)

\* The nodes at 1-based depth level, from left to right.
NodesAtDepth(level) == LeftToRight({n \in Nodes : Depth(n) = level})

\* C5: for every level, get_nodes_from_left_to_right returns the data of
\* exactly the nodes at that 1-based depth from left to right, and
\* get_nodes_from_right_to_left the same nodes in the reversed order.
C5_SingleLevel ==
    /\ call.fn = "get_nodes_from_left_to_right"
        => result = DataOf(NodesAtDepth(call.level))
    /\ call.fn = "get_nodes_from_right_to_left"
        => result = Reverse(DataOf(NodesAtDepth(call.level)))

C5_Witness ==
    /\ call.fn = "get_nodes_from_right_to_left"
    /\ call.level = 3
    /\ DistinctData
    /\ Len(result) >= 2
    /\ height(heap, tree) > 3
    /\ result = Reverse(get_nodes_from_left_to_right(heap, tree, 3))

\* C6: for a level below 1 or above the height of the tree, the absent root
\* included, both single-level functions return the empty sequence.
C6_OutOfRange ==
    /\ call.fn \in {"get_nodes_from_left_to_right", "get_nodes_from_right_to_left"}
    /\ call.level < 1 \/ call.level > height(heap, tree)
    => result = <<>>

C6_Witness ==
    /\ call.fn = "get_nodes_from_left_to_right"
    /\ call.level < 1
    /\ Cardinality(Nodes) >= 3
    /\ result = <<>>

\* C7: reverse_inorder is inorder reversed.
C7_ReverseInorder ==
    call.fn = "reverse_inorder" => result = Reverse(inorder(heap, tree))

C7_Witness ==
    /\ call.fn = "reverse_inorder"
    /\ Cardinality(Nodes) >= 4
    /\ result # inorder(heap, tree)
    /\ result = Reverse(inorder(heap, tree))

\* C8: height is 0 for the absent root, 1 for a single node, 1 + the greater
\* of the heights of the two subtrees for a present root, and so the greatest
\* 1-based depth of any node.
C8_Height ==
    call.fn = "height"
    => /\ tree = None => result = 0
       /\ Cardinality(Nodes) = 1 => result = 1
       /\ tree # None =>
            result = 1 + max(height(heap, heap[tree].left), height(heap, heap[tree].right))
       /\ result = GreatestDepth

C8_Witness ==
    /\ call.fn = "height"
    /\ tree # None
    /\ height(heap, heap[tree].left) = 1
    /\ height(heap, heap[tree].right) = 3
    /\ result = 4

IsPrefix(s, t) == Len(s) <= Len(t) /\ SubSeq(t, 1, Len(s)) = s

\* What the generator yields when it alone is run to exhaustion.
Alone(gen) ==
    CASE gen.fn = "preorder" -> preorder(heap, tree)
      [] gen.fn = "postorder" -> postorder(heap, tree)
      [] gen.fn = "inorder" -> inorder(heap, tree)
      [] gen.fn = "reverse_inorder" -> reverse_inorder(heap, tree)
      [] gen.fn = "level_order" -> level_order(heap, tree)
      [] gen.fn = "get_nodes_from_left_to_right" ->
            get_nodes_from_left_to_right(heap, tree, gen.level)
      [] gen.fn = "get_nodes_from_right_to_left" ->
            get_nodes_from_right_to_left(heap, tree, gen.level)
      [] gen.fn = "zigzag" -> zigzag(heap, tree)

AsAlone ==
    /\ \A g \in Gens :
        gens[g] # Free => /\ IsPrefix(gens[g].out, Alone(gens[g]))
                          /\ gens[g].done => gens[g].out = Alone(gens[g])
    /\ call.fn = "height" => result = GreatestDepth

\* C9: however the steps of the callers' traversals interleave, and whichever
\* of them are abandoned part-way, no step changes a node or the root, every
\* generator has yielded a prefix of what it yields when run alone, and an
\* exhausted one exactly that; height returns the height.
C9_Independent == [][heap' = heap /\ tree' = tree]_vars /\ []AsAlone

C9_Witness ==
    /\ gens[1].fn = "inorder" /\ gens[1].done
    /\ gens[1].out = inorder(heap, tree)
    /\ gens[2].fn = "level_order" /\ ~gens[2].done
    /\ Len(gens[2].out) = 2
    /\ Len(gens[1].out) = 5
    /\ call.fn = "height"

\* The level_order generator of the line-by-line specification.
LO == gens[1]

LOFrame == LO.stack[1]

\* The queue exists from line 92 until the generator ends.
HasQueue == LO.stack # <<>> /\ LOFrame.pc \notin {"L89", "L92"}

Queue == IF HasQueue THEN LOFrame.process_queue ELSE <<>>

\* In every state of level_order: no node was enqueued twice, the queue holds
\* no node twice and no dequeued node, every node but the root was enqueued
\* after its parent was dequeued, the depths in the queue do not decrease from
\* front to back and differ by at most 1, and the values yielded are the data
\* of the nodes dequeued, in order, the node of a pending yield excepted.
QueueDiscipline ==
    /\ NoDuplicates(log.enqueued)
    /\ NoDuplicates(Queue)
    /\ Range(Queue) \subseteq Range(log.enqueued)
    /\ Range(Queue) \cap Range(log.dequeued) = {}
    /\ \A n \in Range(log.enqueued) :
            n # tree => \E p \in Range(log.dequeued) :
                            heap[p].left = n \/ heap[p].right = n
    /\ \A i, j \in 1..Len(Queue) :
            i < j => /\ Depth(Queue[i]) <= Depth(Queue[j])
                     /\ Depth(Queue[j]) - Depth(Queue[i]) <= 1
    /\ Len(LO.out) <= Len(log.dequeued)
    /\ Len(log.dequeued) <= Len(LO.out) + 1
    /\ LO.out = DataOf(SubSeq(log.dequeued, 1, Len(LO.out)))

EveryNodeDone ==
    /\ Range(log.enqueued) = Nodes
    /\ log.dequeued = log.enqueued
    /\ LO.out = DataOf(log.dequeued)
    /\ Len(LO.out) = Cardinality(Nodes)

\* The while test of line 94 found the queue empty, or the generator ended.
LoopOver == LO.done \/ (LO.stack # <<>> /\ LOFrame.pc = "end")

\* C10: in every state of level_order the queue discipline holds, and when
\* the loop test finds the queue empty (the traversal ends), every node has
\* been enqueued once and emitted once.
C10_Queue ==
    /\ QueueDiscipline
    /\ LoopOver /\ tree # None => Queue = <<>> /\ EveryNodeDone

C10_Witness ==
    /\ HasQueue
    /\ Len(Queue) = 3
    /\ Depth(Queue[1]) = 2 /\ Depth(Queue[3]) = 3
    /\ Len(LO.out) = 2
    /\ QueueDiscipline

\* C10 as stated: the queue discipline holds, and whenever the queue is empty
\* every node has been enqueued once and emitted once.
C10_AsStated ==
    /\ QueueDiscipline
    /\ HasQueue /\ Queue = <<>> => EveryNodeDone

====
